---- MODULE Spec2Model ----
(***************************************************************************)
(* Launcher.c: a supervisor that creates two named pipes, spawns a worker  *)
(* (a Python script), relays the worker's output, sends a heartbeat on the *)
(* command pipe and forwards console termination events as a shutdown      *)
(* token.  The main thread runs main/run_script/processPipeDataLoop; the   *)
(* console control handler runs on threads the system creates, one per     *)
(* event; the worker process is the environment.                           *)
(***************************************************************************)
EXTENDS Integers, Sequences, FiniteSets, TLC

(* ---- bounds of the model ---- *)
BufferSize == 3      \* stands for char buffer[4096]; a read takes BufferSize - 1 bytes
MaxWritten == 3      \* bytes the worker writes in one run
MaxIter    == 2      \* loop iterations during which the clock advances
MaxNotifs  == 2      \* console control events delivered in one run
DwordBits  == 13     \* stands for the 32 bits of a DWORD

(* ---- program constants ---- *)
heartbeatInterval == 1000
SleepMs == 10
pipeNameBufferSize == 256

DwordMod == 2 ^ DwordBits
ReadMax == BufferSize - 1
Delays == {SleepMs, heartbeatInterval, 3 * heartbeatInterval + 500}
StartTicks == {0, DwordMod - 1500, DwordMod - heartbeatInterval - 5}
Bytes == {0, 1}
Pids == {1, 12, 4}
Suffixes == {3, 23}
ExitCodes == {0, 7, DwordMod - 1}
CtrlTypes == {"CTRL_C_EVENT", "CTRL_BREAK_EVENT", "CTRL_CLOSE_EVENT", "CTRL_SHUTDOWN_EVENT"}
Threads == 1 .. MaxNotifs
Handles == {"in", "cmd", "stdout", "proc", "thread"}

VARIABLES
    pc,                \* position of the main thread
    reached,           \* history: positions the main thread has been at
    fail,              \* which step made run_script return early ("none" if none)
    result,            \* value returned by run_script (main's local result)
    mainRet,           \* value returned by main ("none" until it returns)
    g_hCommandPipe,    \* the global handle variable: "NULL", "INVALID" or "HCMD"
    hInboundPipe,      \* run_script's local: "UNSET", "INVALID" or "HIN"
    hstate,            \* state of each kernel handle: "none", "open", "closed"
    closes,            \* number of CloseHandle calls made on each handle
    worker,            \* "none", "running", "exited"
    workerCode,        \* exit code of the worker
    workerOut,         \* the worker holds the client end of the output pipe
    ctlClient,         \* client end of the command pipe: "none", "open", "closed"
    written,           \* bytes the worker has written to the output pipe
    pending,           \* bytes in the output pipe not yet read
    forwarded,         \* bytes printf has emitted
    outFailed,         \* PeekNamedPipe has reported an error
    now,               \* milliseconds since the start (unwrapped)
    tick0,             \* GetTickCount() at the start
    loopStart,         \* value of now when the loop was entered
    iter,              \* iterations of the loop so far (up to MaxIter)
    lastHeartbeatTime, currentTime, exitCode,
    lastBeatAt,        \* value of now when lastHeartbeatTime was recorded
    hbHandle,          \* handle value loaded for the heartbeat WriteFile
    mainH,             \* handle value loaded by the final cleanup
    hbWritten,         \* heartbeat tokens written
    hbFailed,          \* heartbeat writes that failed
    shutdownWritten,   \* shutdown tokens written
    staleWrites,       \* WriteFile calls made with the handle already closed
    hpc, hh,           \* handler threads: position, handle value loaded by the test
    hret,              \* value last returned by ConsoleHandler ("none" before)
    notifs,            \* events delivered so far
    pid,               \* GetCurrentProcessId()
    randomSuffix,      \* rand() after srand(time(NULL))
    scriptOutputPipeName, scriptCommandPipeName,   \* the name buffers
    peer               \* a second launcher running at the same time: its pid,
                       \* suffix and the two names it has generated

vars == <<pc, reached, fail, result, mainRet, g_hCommandPipe, hInboundPipe, hstate,
          closes, worker, workerCode, workerOut, ctlClient, written, pending,
          forwarded, outFailed, now, tick0, loopStart, iter, lastHeartbeatTime,
          currentTime, exitCode, hbHandle, mainH, hbWritten, hbFailed,
          shutdownWritten, staleWrites, hpc, hh, hret, notifs, lastBeatAt, pid,
          randomSuffix, scriptOutputPipeName, scriptCommandPipeName, peer>>

mainVars   == <<pc, reached, fail, result, mainRet>>
handleVars == <<g_hCommandPipe, hInboundPipe, hstate, closes>>
workerVars == <<worker, workerCode, workerOut, ctlClient>>
dataVars   == <<written, pending, forwarded, outFailed>>
timeVars   == <<now, tick0, loopStart, iter, lastHeartbeatTime, currentTime, lastBeatAt>>
ctlVars    == <<hbWritten, hbFailed, shutdownWritten, staleWrites>>
thrVars    == <<hpc, hh, hret, notifs>>
localVars  == <<exitCode, hbHandle, mainH>>
nameVars   == <<pid, randomSuffix, scriptOutputPipeName, scriptCommandPipeName, peer>>

(* ---- pure helpers ---- *)
Min(a, b) == IF a < b THEN a ELSE b

\* GetTickCount(): the millisecond counter, a DWORD that wraps
GetTickCount(t) == (tick0 + t) % DwordMod

\* a slip: the difference of the two tick values taken without the wraparound
DwordSub_Signed(a, b) == a - b

\* DWORD subtraction currentTime - lastHeartbeatTime
DwordSub(a, b) == (a - b + DwordMod) % DwordMod

\* return exitCode; a DWORD converted to int
ToInt(dw) == IF dw >= DwordMod \div 2 THEN dw - DwordMod ELSE dw

\* the exit status of the process for main's int return value
ExitStatus(r) == (r + DwordMod) % DwordMod

\* printf("%s", buffer): the bytes of the chunk up to its first zero byte
RECURSIVE PrintfS(_)
PrintfS(chunk) ==
    IF chunk = <<>> \/ Head(chunk) = 0 THEN <<>>
    ELSE <<Head(chunk)>> \o PrintfS(Tail(chunk))

\* "%lu" and "%d" of a number that is not negative: its decimal digits
Digit(d) == <<"0", "1", "2", "3", "4", "5", "6", "7", "8", "9">>[d + 1]
RECURSIVE Decimal(_)
Decimal(n) == IF n < 10 THEN <<Digit(n)>> ELSE Decimal(n \div 10) \o <<Digit(n % 10)>>

\* the characters of the pipe namespace \\.\pipe\, of "PythonOutputPipe" and of "PythonShutdownPipe"
PipeRoot == <<"\\", "\\", ".", "\\", "p", "i", "p", "e", "\\">>
OutputPrefix == <<"P", "y", "t", "h", "o", "n", "O", "u", "t", "p", "u", "t", "P", "i", "p", "e">>
ShutdownPrefix ==
    <<"P", "y", "t", "h", "o", "n", "S", "h", "u", "t", "d", "o", "w", "n", "P", "i", "p", "e">>

\* a slip: the format "%s%lu%d" without the separators
PipeName_NoSeparator(pipePrefix, p, suffix) ==
    LET full == PipeRoot \o pipePrefix \o Decimal(p) \o Decimal(suffix)
    IN  SubSeq(full, 1, Min(Len(full), pipeNameBufferSize - 1))

\* snprintf(pipeNameBuffer, pipeNameBufferSize, "\\\\.\\pipe\\%s_%lu_%d", ...)
PipeName(pipePrefix, p, suffix) ==
    LET full == PipeRoot \o pipePrefix \o <<"_">> \o Decimal(p) \o <<"_">> \o Decimal(suffix)
    IN  SubSeq(full, 1, Min(Len(full), pipeNameBufferSize - 1))

\* the handles CloseHandle(h) acts on for a value of the command pipe variable
CmdTarget(h) == IF h = "HCMD" THEN {"cmd"} ELSE {}

\* CloseHandle on each handle of a set
CloseHandles(names) ==
    /\ hstate' = [x \in Handles |-> IF x \in names THEN "closed" ELSE hstate[x]]
    /\ closes' = [x \in Handles |-> IF x \in names THEN closes[x] + 1 ELSE closes[x]]

\* WriteFile on the command pipe succeeds on an open handle with a connected reader
WriteOk(h) == h = "HCMD" /\ hstate["cmd"] = "open" /\ ctlClient = "open"
WriteStale(h) == h = "HCMD" /\ hstate["cmd"] = "closed"

Goto(p) == pc' = p /\ reached' = reached \cup {p}

\* return r from run_script
Return(r, why) == Goto("returned") /\ result' = r /\ fail' = why

\* the state when main starts: ticks are the values GetTickCount() may have
\* then; ids are tuples of the process id and the random suffix of this launcher
\* and of the second one
InitWith(ticks, ids) ==
    /\ pc = "main" /\ reached = {"main"} /\ fail = "none"
    /\ result = 0 /\ mainRet = "none"
    /\ g_hCommandPipe = "NULL" /\ hInboundPipe = "UNSET"
    /\ hstate = [x \in Handles |-> "none"]
    /\ closes = [x \in Handles |-> 0]
    /\ worker = "none" /\ workerCode = 0 /\ workerOut = FALSE /\ ctlClient = "none"
    /\ written = <<>> /\ pending = <<>> /\ forwarded = <<>> /\ outFailed = FALSE
    /\ now = 0 /\ tick0 \in ticks /\ loopStart = 0 /\ iter = 0
    /\ lastHeartbeatTime = 0 /\ currentTime = 0 /\ exitCode = 0 /\ lastBeatAt = 0
    /\ hbHandle = "NULL" /\ mainH = "NULL"
    /\ hbWritten = 0 /\ hbFailed = 0 /\ shutdownWritten = 0 /\ staleWrites = 0
    /\ hpc = [t \in Threads |-> "idle"]
    /\ hh = [t \in Threads |-> "NULL"]
    /\ hret = "none"
    /\ notifs = 0
    /\ \E id \in ids :
         /\ pid = id[1] /\ randomSuffix = id[2]
         /\ peer = [pid |-> id[3], randomSuffix |-> id[4], out |-> <<>>, cmd |-> <<>>]
    /\ scriptOutputPipeName = <<>> /\ scriptCommandPipeName = <<>>

\* one launcher with a fixed identity next to a second one
InitAt(ticks) == InitWith(ticks, {<<1, 23, 12, 23>>})

(* ======================= main thread: main, run_script ================== *)

\* main: SetConsoleCtrlHandler(ConsoleHandler, TRUE), then run_script is called
RegisterHandler ==
    /\ pc = "main"
    /\ Goto("load")
    /\ UNCHANGED <<nameVars, fail, result, mainRet, handleVars, workerVars, dataVars, timeVars,
                   ctlVars, thrVars, localVars>>

\* loadConsoleFunctions: return -1 when a function could not be loaded
LoadConsoleFunctions ==
    /\ pc = "load"
    /\ \E ok \in BOOLEAN :
         IF ok THEN Goto("console") /\ UNCHANGED <<fail, result>>
         ELSE Return(-1, "load")
    /\ UNCHANGED <<nameVars, mainRet, handleVars, workerVars, dataVars, timeVars,
                   ctlVars, thrVars, localVars>>

\* getConsoleWindow: return -1 when there is no console window
GetConsole ==
    /\ pc = "console"
    /\ \E ok \in BOOLEAN :
         IF ok THEN Goto("create_out") /\ UNCHANGED <<fail, result>>
         ELSE Return(-1, "console")
    /\ UNCHANGED <<nameVars, mainRet, handleVars, workerVars, dataVars, timeVars,
                   ctlVars, thrVars, localVars>>

\* hInboundPipe = createNamedPipe("PythonOutputPipe", ...); return -1 on failure
CreateInboundPipe ==
    /\ pc = "create_out"
    /\ scriptOutputPipeName' = PipeName(OutputPrefix, pid, randomSuffix)
    /\ \E ok \in BOOLEAN :
         IF ok
         THEN /\ hInboundPipe' = "HIN"
              /\ hstate' = [hstate EXCEPT !["in"] = "open"]
              /\ Goto("create_cmd")
              /\ UNCHANGED <<fail, result>>
         ELSE /\ hInboundPipe' = "INVALID"
              /\ UNCHANGED hstate
              /\ Return(-1, "create_out")
    /\ UNCHANGED <<pid, randomSuffix, scriptCommandPipeName, peer, mainRet, g_hCommandPipe, closes, workerVars, dataVars, timeVars,
                   ctlVars, thrVars, localVars>>

\* a slip: the failed creation of the command pipe is not checked
CreateCommandPipe_Unchecked ==
    /\ pc = "create_cmd"
    /\ scriptCommandPipeName' = PipeName(ShutdownPrefix, pid, randomSuffix)
    /\ \E ok \in BOOLEAN :
         /\ g_hCommandPipe' = IF ok THEN "HCMD" ELSE "INVALID"
         /\ hstate' = [hstate EXCEPT !["cmd"] = IF ok THEN "open" ELSE @]
         /\ Goto("open_stdout")
         /\ UNCHANGED <<fail, result, closes>>
    /\ UNCHANGED <<pid, randomSuffix, scriptOutputPipeName, peer, mainRet, hInboundPipe, workerVars, dataVars, timeVars,
                   ctlVars, thrVars, localVars>>

\* g_hCommandPipe = createNamedPipe("PythonShutdownPipe", ...); on failure
\* CloseHandle(hInboundPipe) and return -1
CreateCommandPipe ==
    /\ pc = "create_cmd"
    /\ scriptCommandPipeName' = PipeName(ShutdownPrefix, pid, randomSuffix)
    /\ \E ok \in BOOLEAN :
         IF ok
         THEN /\ g_hCommandPipe' = "HCMD"
              /\ hstate' = [hstate EXCEPT !["cmd"] = "open"]
              /\ Goto("open_stdout")
              /\ UNCHANGED <<fail, result, closes>>
         ELSE /\ g_hCommandPipe' = "INVALID"
              /\ CloseHandles({"in"})
              /\ Return(-1, "create_cmd")
    /\ UNCHANGED <<pid, randomSuffix, scriptOutputPipeName, peer, mainRet, hInboundPipe, workerVars, dataVars, timeVars,
                   ctlVars, thrVars, localVars>>

\* si.hStdOutput = CreateFile(scriptOutputPipeName, ...); on failure close both
\* pipes and return -1
OpenStdOutput ==
    /\ pc = "open_stdout"
    /\ \E ok \in BOOLEAN :
         IF ok
         THEN /\ hstate' = [hstate EXCEPT !["stdout"] = "open"]
              /\ Goto("spawn")
              /\ UNCHANGED <<fail, result, closes>>
         ELSE /\ CloseHandles({"in"} \cup CmdTarget(g_hCommandPipe))
              /\ Return(-1, "open_stdout")
    /\ UNCHANGED <<nameVars, mainRet, g_hCommandPipe, hInboundPipe, workerVars, dataVars,
                   timeVars, ctlVars, thrVars, localVars>>

\* a slip: the failure path of CreateProcess leaves the command pipe open
SpawnWorker_Leak ==
    /\ pc = "spawn"
    /\ \E ok \in BOOLEAN :
         IF ok
         THEN /\ worker' = "running" /\ workerOut' = TRUE
              /\ hstate' = [hstate EXCEPT !["proc"] = "open", !["thread"] = "open"]
              /\ Goto("close_stdout")
              /\ UNCHANGED <<fail, result, closes>>
         ELSE /\ CloseHandles({"in", "stdout"})
              /\ UNCHANGED <<worker, workerOut>>
              /\ Return(-1, "spawn")
    /\ UNCHANGED <<nameVars, mainRet, g_hCommandPipe, hInboundPipe, workerCode, ctlClient,
                   dataVars, timeVars, ctlVars, thrVars, localVars>>

\* CreateProcess(..., bInheritHandles TRUE, ...); on failure close both pipes and
\* si.hStdOutput and return -1
SpawnWorker ==
    /\ pc = "spawn"
    /\ \E ok \in BOOLEAN :
         IF ok
         THEN /\ worker' = "running" /\ workerOut' = TRUE
              /\ hstate' = [hstate EXCEPT !["proc"] = "open", !["thread"] = "open"]
              /\ Goto("close_stdout")
              /\ UNCHANGED <<fail, result, closes>>
         ELSE /\ CloseHandles({"in", "stdout"} \cup CmdTarget(g_hCommandPipe))
              /\ UNCHANGED <<worker, workerOut>>
              /\ Return(-1, "spawn")
    /\ UNCHANGED <<nameVars, mainRet, g_hCommandPipe, hInboundPipe, workerCode, ctlClient,
                   dataVars, timeVars, ctlVars, thrVars, localVars>>

\* CloseHandle(si.hStdOutput): the parent's copy of the write end
CloseStdOutput ==
    /\ pc = "close_stdout"
    /\ CloseHandles({"stdout"})
    /\ Goto("connect_cmd")
    /\ UNCHANGED <<nameVars, fail, result, mainRet, g_hCommandPipe, hInboundPipe, workerVars,
                   dataVars, timeVars, ctlVars, thrVars, localVars>>

\* a slip: the result of ConnectNamedPipe on the command pipe is not tested
ConnectCommandPipe_Untested ==
    /\ pc = "connect_cmd"
    /\ \/ g_hCommandPipe # "HCMD"
       \/ hstate["cmd"] # "open"
       \/ ctlClient # "none"
    /\ Goto("connect_out")
    /\ UNCHANGED <<nameVars, fail, result, hstate, closes, mainRet, g_hCommandPipe,
                   hInboundPipe, workerVars, dataVars, timeVars, ctlVars, thrVars,
                   localVars>>

\* ConnectNamedPipe(g_hCommandPipe, NULL): blocks until the worker connects; fails
\* on a handle that is not an open pipe or whose client has gone.  On failure
\* CloseHandle(hInboundPipe) and return -1.
ConnectCommandPipe ==
    /\ pc = "connect_cmd"
    /\ \/ /\ g_hCommandPipe = "HCMD" /\ hstate["cmd"] = "open" /\ ctlClient = "open"
          /\ Goto("connect_out")
          /\ UNCHANGED <<fail, result, hstate, closes>>
       \/ /\ \/ g_hCommandPipe # "HCMD"
             \/ hstate["cmd"] # "open"
             \/ ctlClient = "closed"
          /\ CloseHandles({"in"})
          /\ Return(-1, "connect_cmd")
    /\ UNCHANGED <<nameVars, mainRet, g_hCommandPipe, hInboundPipe, workerVars, dataVars,
                   timeVars, ctlVars, thrVars, localVars>>

\* a slip: a failed connection of the output pipe does not stop run_script
ConnectOutputPipe_Ignored ==
    /\ pc = "connect_out"
    /\ Goto("loop_init")
    /\ UNCHANGED <<nameVars, fail, result, hstate, closes, mainRet, g_hCommandPipe,
                   hInboundPipe, workerVars, dataVars, timeVars, ctlVars, thrVars,
                   localVars>>

\* ConnectNamedPipe(hInboundPipe, NULL) || GetLastError() == ERROR_PIPE_CONNECTED:
\* the client end was opened by CreateFile and inherited by the worker.  On
\* failure CloseHandle(hInboundPipe) and return -1.
ConnectOutputPipe ==
    /\ pc = "connect_out"
    /\ IF workerOut
       THEN Goto("loop_init") /\ UNCHANGED <<fail, result, hstate, closes>>
       ELSE CloseHandles({"in"}) /\ Return(-1, "connect_out")
    /\ UNCHANGED <<nameVars, mainRet, g_hCommandPipe, hInboundPipe, workerVars, dataVars,
                   timeVars, ctlVars, thrVars, localVars>>

(* ======================= main thread: processPipeDataLoop =============== *)

\* DWORD lastHeartbeatTime = GetTickCount();
LoopInit ==
    /\ pc = "loop_init"
    /\ lastHeartbeatTime' = GetTickCount(now)
    /\ lastBeatAt' = now
    /\ loopStart' = now
    /\ Goto("peek")
    /\ UNCHANGED <<nameVars, fail, result, mainRet, handleVars, workerVars, dataVars, now, tick0,
                   iter, currentTime, ctlVars, thrVars, localVars>>

\* PeekNamedPipe fails once the client end is closed and the pipe is empty
PeekFails == ~workerOut /\ pending = <<>>

\* PeekNamedPipe; if data is available ReadFile(hInboundPipe, buffer,
\* sizeof(buffer) - 1, ...), buffer[bytesRead] = '\0', printf("%s", buffer)
PeekAndRead ==
    /\ pc = "peek"
    /\ outFailed' = (outFailed \/ PeekFails)
    /\ LET bytesRead == Min(Len(pending), ReadMax)
           chunk == SubSeq(pending, 1, bytesRead)
       IN  /\ forwarded' = forwarded \o PrintfS(chunk)
           /\ pending' = SubSeq(pending, bytesRead + 1, Len(pending))
    /\ Goto("hb_check")
    /\ UNCHANGED <<nameVars, fail, result, mainRet, handleVars, workerVars, written, timeVars,
                   ctlVars, thrVars, localVars>>

\* the heartbeat is due: currentTime - lastHeartbeatTime >= heartbeatInterval
HeartbeatDue(cur, last) == DwordSub(cur, last) >= heartbeatInterval

\* currentTime = GetTickCount(); when the heartbeat is due the argument
\* g_hCommandPipe of WriteFile is loaded
HeartbeatCheck ==
    /\ pc = "hb_check"
    /\ currentTime' = GetTickCount(now)
    /\ IF HeartbeatDue(currentTime', lastHeartbeatTime)
       THEN hbHandle' = g_hCommandPipe /\ Goto("hb_write")
       ELSE UNCHANGED hbHandle /\ Goto("exit_check")
    /\ UNCHANGED <<nameVars, fail, result, mainRet, handleVars, workerVars, dataVars, now, tick0,
                   loopStart, iter, lastHeartbeatTime, lastBeatAt, ctlVars, thrVars, exitCode, mainH>>

\* a slip: a failed heartbeat write leaves the loop
HeartbeatWrite_Fatal ==
    /\ pc = "hb_write"
    /\ IF WriteOk(hbHandle)
       THEN /\ hbWritten' = hbWritten + 1
            /\ lastHeartbeatTime' = currentTime
            /\ lastBeatAt' = now
            /\ Goto("exit_check")
            /\ UNCHANGED <<hbFailed, staleWrites>>
       ELSE /\ hbFailed' = hbFailed + 1
            /\ staleWrites' = IF WriteStale(hbHandle) THEN staleWrites + 1 ELSE staleWrites
            /\ Goto("wait_exit")
            /\ UNCHANGED <<hbWritten, lastHeartbeatTime, lastBeatAt>>
    /\ hbHandle' = "NULL"
    /\ UNCHANGED <<nameVars, fail, result, mainRet, handleVars, workerVars, dataVars, now, tick0,
                   loopStart, iter, currentTime, shutdownWritten, thrVars, exitCode, mainH>>

\* WriteFile(g_hCommandPipe, "HEARTBEAT\n", ...): a failure is printed and
\* nothing else; lastHeartbeatTime = currentTime either way
HeartbeatWrite ==
    /\ pc = "hb_write"
    /\ IF WriteOk(hbHandle)
       THEN hbWritten' = hbWritten + 1 /\ UNCHANGED <<hbFailed, staleWrites>>
       ELSE /\ hbFailed' = hbFailed + 1
            /\ staleWrites' = IF WriteStale(hbHandle) THEN staleWrites + 1 ELSE staleWrites
            /\ UNCHANGED hbWritten
    /\ lastHeartbeatTime' = currentTime
    /\ lastBeatAt' = now
    /\ hbHandle' = "NULL"
    /\ Goto("exit_check")
    /\ UNCHANGED <<nameVars, fail, result, mainRet, handleVars, workerVars, dataVars, now, tick0,
                   loopStart, iter, currentTime, shutdownWritten, thrVars, exitCode, mainH>>

\* a slip: the loop does not test whether the worker has exited
ExitCheck_Never ==
    /\ pc = "exit_check"
    /\ Goto("sleep")
    /\ UNCHANGED <<nameVars, fail, result, mainRet, handleVars, workerVars, dataVars, timeVars,
                   ctlVars, thrVars, localVars>>

\* WaitForSingleObject(pi->hProcess, 0) == WAIT_OBJECT_0: break
ExitCheck ==
    /\ pc = "exit_check"
    /\ IF worker = "exited" THEN Goto("wait_exit") ELSE Goto("sleep")
    /\ UNCHANGED <<nameVars, fail, result, mainRet, handleVars, workerVars, dataVars, timeVars,
                   ctlVars, thrVars, localVars>>

\* Sleep(10): the next iteration starts after a delay of at least 10 ms, one of
\* ds; past MaxIter iterations the clock of the model stands still
SleepFor(ds) ==
    /\ pc = "sleep"
    /\ IF iter < MaxIter
       THEN \E d \in ds : now' = now + d /\ iter' = iter + 1
       ELSE UNCHANGED <<now, iter>>
    /\ Goto("peek")
    /\ UNCHANGED <<nameVars, fail, result, mainRet, handleVars, workerVars, dataVars, tick0,
                   loopStart, lastHeartbeatTime, currentTime, lastBeatAt, ctlVars, thrVars, localVars>>

(* ======================= main thread: after the loop ==================== *)

\* a slip: the exit code is reduced to a success flag
GetExitCodeProcess_Flag == IF workerCode = 0 THEN 0 ELSE 1

\* GetExitCodeProcess(pi.hProcess, &exitCode)
GetExitCodeProcess == workerCode

\* WaitForSingleObject(pi.hProcess, INFINITE); GetExitCodeProcess
WaitForExit ==
    /\ pc = "wait_exit"
    /\ worker = "exited"
    /\ hstate["proc"] = "open"
    /\ exitCode' = GetExitCodeProcess
    /\ Goto("cleanup")
    /\ UNCHANGED <<nameVars, fail, result, mainRet, handleVars, workerVars, dataVars, timeVars,
                   ctlVars, thrVars, hbHandle, mainH>>

\* CloseHandle(hInboundPipe); the test if (g_hCommandPipe) loads the variable
CleanupInbound ==
    /\ pc = "cleanup"
    /\ CloseHandles({"in"})
    /\ mainH' = g_hCommandPipe
    /\ Goto("cleanup_cmd")
    /\ UNCHANGED <<nameVars, fail, result, mainRet, g_hCommandPipe, hInboundPipe, workerVars,
                   dataVars, timeVars, ctlVars, thrVars, exitCode, hbHandle>>

\* if (g_hCommandPipe) CloseHandle(g_hCommandPipe); CloseHandle(pi.hProcess);
\* CloseHandle(pi.hThread); return exitCode.  The argument of CloseHandle is the
\* value tested or a second load of the variable.
CleanupAndReturn ==
    /\ pc = "cleanup_cmd"
    /\ \E h \in {mainH, g_hCommandPipe} :
         CloseHandles({"proc", "thread"} \cup
                      (IF mainH # "NULL" THEN CmdTarget(h) ELSE {}))
    /\ Return(ToInt(exitCode), "none")
    /\ UNCHANGED <<nameVars, mainRet, g_hCommandPipe, hInboundPipe, workerVars, dataVars,
                   timeVars, ctlVars, thrVars, localVars>>

\* main: if (result != 0) the prompt and getchar(), otherwise return result
AfterRunScript ==
    /\ pc = "returned"
    /\ IF result # 0
       THEN Goto("press_key") /\ UNCHANGED mainRet
       ELSE Goto("done") /\ mainRet' = result
    /\ UNCHANGED <<nameVars, fail, result, handleVars, workerVars, dataVars, timeVars,
                   ctlVars, thrVars, localVars>>

\* getchar() returns; return result
KeyPressed ==
    /\ pc = "press_key"
    /\ Goto("done")
    /\ mainRet' = result
    /\ UNCHANGED <<nameVars, fail, result, handleVars, workerVars, dataVars, timeVars,
                   ctlVars, thrVars, localVars>>

(* ======================= ConsoleHandler threads ========================= *)

\* the events ConsoleHandler acts on
IsTermination(type) ==
    type \in {"CTRL_CLOSE_EVENT", "CTRL_C_EVENT", "CTRL_SHUTDOWN_EVENT"}

\* the system starts a new thread that calls ConsoleHandler(dwCtrlType); the
\* handler is registered by the first statement of main and lives as long as
\* the process.  For an event other than the three tested, return FALSE.
Notify(type) ==
    /\ pc \notin {"main", "done"}
    /\ notifs < MaxNotifs
    /\ notifs' = notifs + 1
    /\ IF IsTermination(type)
       THEN hpc' = [hpc EXCEPT ![notifs + 1] = "check"] /\ UNCHANGED hret
       ELSE hret' = "FALSE" /\ UNCHANGED hpc
    /\ UNCHANGED <<nameVars, mainVars, handleVars, workerVars, dataVars, timeVars, ctlVars,
                   hh, localVars>>

\* if (g_hCommandPipe) {...} return TRUE;
HandlerCheck(t) ==
    /\ pc # "done"
    /\ hpc[t] = "check"
    /\ IF g_hCommandPipe = "NULL"
       THEN /\ hret' = "TRUE"
            /\ hpc' = [hpc EXCEPT ![t] = "idle"]
            /\ UNCHANGED hh
       ELSE /\ hh' = [hh EXCEPT ![t] = g_hCommandPipe]
            /\ hpc' = [hpc EXCEPT ![t] = "write"]
            /\ UNCHANGED hret
    /\ UNCHANGED <<nameVars, mainVars, handleVars, workerVars, dataVars, timeVars, ctlVars,
                   notifs, localVars>>

\* WriteFile(g_hCommandPipe, "shutdown\n", ...): the result is ignored.  The
\* argument is the value tested or a second load of the unguarded variable.
HandlerWrite(t) ==
    /\ pc # "done"
    /\ hpc[t] = "write"
    /\ \E h \in {hh[t], g_hCommandPipe} :
         /\ shutdownWritten' = IF WriteOk(h) THEN shutdownWritten + 1 ELSE shutdownWritten
         /\ staleWrites' = IF WriteStale(h) THEN staleWrites + 1 ELSE staleWrites
    /\ hpc' = [hpc EXCEPT ![t] = "close"]
    /\ hh' = [hh EXCEPT ![t] = "NULL"]
    /\ UNCHANGED <<nameVars, mainVars, handleVars, workerVars, dataVars, timeVars, hbWritten,
                   hbFailed, hret, notifs, localVars>>

\* CloseHandle(g_hCommandPipe): the variable is loaded again after WriteFile
HandlerClose(t) ==
    /\ pc # "done"
    /\ hpc[t] = "close"
    /\ CloseHandles(CmdTarget(g_hCommandPipe))
    /\ hpc' = [hpc EXCEPT ![t] = "clear"]
    /\ UNCHANGED <<nameVars, mainVars, g_hCommandPipe, hInboundPipe, workerVars, dataVars,
                   timeVars, ctlVars, hh, hret, notifs, localVars>>

\* a slip: the handler reports the event as not handled
HandlerClear_ReturnFalse(t) ==
    /\ pc # "done"
    /\ hpc[t] = "clear"
    /\ g_hCommandPipe' = "NULL"
    /\ hret' = "FALSE"
    /\ hpc' = [hpc EXCEPT ![t] = "idle"]
    /\ UNCHANGED <<nameVars, mainVars, hInboundPipe, hstate, closes, workerVars, dataVars,
                   timeVars, ctlVars, hh, notifs, localVars>>

\* g_hCommandPipe = NULL; return TRUE
HandlerClear(t) ==
    /\ pc # "done"
    /\ hpc[t] = "clear"
    /\ g_hCommandPipe' = "NULL"
    /\ hret' = "TRUE"
    /\ hpc' = [hpc EXCEPT ![t] = "idle"]
    /\ UNCHANGED <<nameVars, mainVars, hInboundPipe, hstate, closes, workerVars, dataVars,
                   timeVars, ctlVars, hh, notifs, localVars>>

\* ConsoleHandler is the only handler registered: when it returns FALSE the
\* system goes on to the default handler, which ends the process (ExitProcess);
\* when it returns TRUE for CTRL_C_EVENT no further handler is called
DefaultHandler ==
    /\ hret = "FALSE"
    /\ pc \notin {"done", "killed"}
    /\ Goto("killed")
    /\ UNCHANGED <<nameVars, fail, result, mainRet, handleVars, workerVars, dataVars, timeVars,
                   ctlVars, thrVars, localVars>>

(* ======================= the worker process ============================= *)

\* the script opens the pipe named by --shutdown-pipe
WorkerConnect ==
    /\ worker = "running"
    /\ ctlClient = "none"
    /\ hstate["cmd"] = "open"
    /\ ctlClient' = "open"
    /\ UNCHANGED <<nameVars, mainVars, handleVars, worker, workerCode, workerOut, dataVars,
                   timeVars, ctlVars, thrVars, localVars>>

\* the script writes a byte to its standard output, the output pipe; it writes
\* at most limit bytes in the run
WorkerWrite(limit, b) ==
    /\ worker = "running"
    /\ workerOut
    /\ hstate["in"] = "open"
    /\ Len(written) < limit
    /\ written' = Append(written, b)
    /\ pending' = Append(pending, b)
    /\ UNCHANGED <<nameVars, mainVars, handleVars, workerVars, forwarded, outFailed, timeVars,
                   ctlVars, thrVars, localVars>>

\* the worker's end of the output pipe is closed while the process object is
\* not signalled: by the script, or by the system as it tears the process down
WorkerCloseOutput ==
    /\ worker = "running"
    /\ workerOut
    /\ workerOut' = FALSE
    /\ UNCHANGED <<nameVars, mainVars, handleVars, worker, workerCode, ctlClient,
                   dataVars, timeVars, ctlVars, thrVars, localVars>>

\* the script exits with code c; its ends of the pipes are closed
WorkerExit(c) ==
    /\ worker = "running"
    /\ worker' = "exited"
    /\ workerCode' = c
    /\ workerOut' = FALSE
    /\ ctlClient' = IF ctlClient = "open" THEN "closed" ELSE ctlClient
    /\ UNCHANGED <<nameVars, mainVars, handleVars, dataVars, timeVars, ctlVars, thrVars, localVars>>

(* ======================= a second launcher ============================== *)

allButPeer == <<mainVars, handleVars, workerVars, dataVars, timeVars, ctlVars, thrVars,
                localVars, pid, randomSuffix, scriptOutputPipeName, scriptCommandPipeName>>

\* the second launcher's createNamedPipe("PythonOutputPipe", ...) makes its name
PeerCreateInbound ==
    /\ peer.out = <<>>
    /\ peer' = [peer EXCEPT !.out = PipeName(OutputPrefix, peer.pid, peer.randomSuffix)]
    /\ UNCHANGED allButPeer

\* the second launcher's createNamedPipe("PythonShutdownPipe", ...) makes its name
PeerCreateCommand ==
    /\ peer.out # <<>> /\ peer.cmd = <<>>
    /\ peer' = [peer EXCEPT !.cmd = PipeName(ShutdownPrefix, peer.pid, peer.randomSuffix)]
    /\ UNCHANGED allButPeer

(* ======================= specifications ================================= *)

\* the steps of the main thread, with the delays ds of Sleep
MainThread(ds) ==
    \/ RegisterHandler
    \/ LoadConsoleFunctions
    \/ GetConsole
    \/ CreateInboundPipe
    \/ CreateCommandPipe
    \/ OpenStdOutput
    \/ SpawnWorker
    \/ CloseStdOutput
    \/ ConnectCommandPipe
    \/ ConnectOutputPipe
    \/ LoopInit
    \/ PeekAndRead
    \/ HeartbeatCheck
    \/ HeartbeatWrite
    \/ ExitCheck
    \/ SleepFor(ds)
    \/ WaitForExit
    \/ CleanupInbound
    \/ CleanupAndReturn
    \/ AfterRunScript
    \/ KeyPressed

\* the handler threads
HandlerThreads ==
    \/ \E type \in CtrlTypes : Notify(type)
    \/ \E t \in Threads : HandlerCheck(t)
    \/ \E t \in Threads : HandlerWrite(t)
    \/ \E t \in Threads : HandlerClose(t)
    \/ \E t \in Threads : HandlerClear(t)

\* the positions of the main thread inside processPipeDataLoop
LoopPcs == {"peek", "hb_check", "hb_write", "exit_check", "sleep"}

\* a console event delivered while the loop runs and the command pipe is open
NotifyRunning(type) ==
    /\ pc \in LoopPcs
    /\ g_hCommandPipe = "HCMD" /\ hstate["cmd"] = "open"
    /\ Notify(type)

\* the first console event, delivered in the same way
NotifyOnce(type) == notifs = 0 /\ NotifyRunning(type)

\* The supervisor with console events: the worker writes nothing and every
\* iteration of the loop takes one heartbeat interval.
Init == InitAt({0})

Next ==
    \/ MainThread({heartbeatInterval})
    \/ HandlerThreads
    \/ WorkerConnect
    \/ \E c \in ExitCodes : WorkerExit(c)

Spec == Init /\ [][Next]_vars

\* The relay of the output: no console events; the worker writes up to
\* MaxWritten bytes of any value and may close its end of the output pipe.
NextRelay ==
    \/ MainThread({heartbeatInterval})
    \/ WorkerConnect
    \/ \E b \in Bytes : WorkerWrite(MaxWritten, b)
    \/ WorkerCloseOutput
    \/ \E c \in ExitCodes : WorkerExit(c)

SpecRelay == Init /\ [][NextRelay]_vars

\* The relay of text: as NextRelay, but the worker writes no zero byte.
NextText ==
    \/ MainThread({heartbeatInterval})
    \/ WorkerConnect
    \/ WorkerWrite(MaxWritten, 1)
    \/ \E c \in ExitCodes : WorkerExit(c)

SpecText == Init /\ [][NextText]_vars

\* The cadence of the heartbeat: no console events, no output; the iterations
\* take any of Delays and the tick counter starts anywhere in StartTicks.
InitBeat == InitAt(StartTicks)

NextBeat ==
    \/ MainThread(Delays)
    \/ WorkerConnect
    \/ \E c \in ExitCodes : WorkerExit(c)

SpecBeat == InitBeat /\ [][NextBeat]_vars

\* Two launchers started at the same time: their process ids differ, their
\* random suffixes are any of Suffixes.
InitNames ==
    InitWith({0}, {<<p, r, q, t>> : p \in Pids, r \in Suffixes, q \in Pids, t \in Suffixes}
                  \ {<<p, r, p, t>> : p \in Pids, r \in Suffixes, t \in Suffixes})

NextNames ==
    \/ MainThread({heartbeatInterval})
    \/ WorkerConnect
    \/ \E c \in {0} : WorkerExit(c)
    \/ PeerCreateInbound
    \/ PeerCreateCommand

SpecNames == InitNames /\ [][NextNames]_vars

\* Termination events in the middle of the run: every event is one the handler
\* acts on and is delivered while the loop runs with the command pipe open.
NextMidRun ==
    \/ MainThread({heartbeatInterval})
    \/ \E type \in {x \in CtrlTypes : IsTermination(x)} : NotifyRunning(type)
    \/ \E t \in Threads : HandlerCheck(t)
    \/ \E t \in Threads : HandlerWrite(t)
    \/ \E t \in Threads : HandlerClose(t)
    \/ \E t \in Threads : HandlerClear(t)
    \/ WorkerConnect
    \/ \E c \in ExitCodes : WorkerExit(c)

SpecMidRun == Init /\ [][NextMidRun]_vars

\* The end of the run: one termination event in the middle of the run, a worker
\* that writes a byte of output, and a main thread that is always scheduled
\* again (none of its calls blocks for ever once the worker has exited).
NextLive ==
    \/ MainThread({heartbeatInterval})
    \/ \E type \in {x \in CtrlTypes : IsTermination(x)} : NotifyOnce(type)
    \/ \E t \in Threads : HandlerCheck(t)
    \/ \E t \in Threads : HandlerWrite(t)
    \/ \E t \in Threads : HandlerClose(t)
    \/ \E t \in Threads : HandlerClear(t)
    \/ WorkerConnect
    \/ WorkerWrite(1, 1)
    \/ \E c \in {0, 7} : WorkerExit(c)

SpecLive == Init /\ [][NextLive]_vars /\ WF_vars(MainThread({heartbeatInterval}))

\* One interrupt-class event in the middle of the run: Ctrl+C, which the handler
\* acts on, or Ctrl+Break, which it leaves to the default handler.
NextInterrupt ==
    \/ MainThread({heartbeatInterval})
    \/ \E type \in {"CTRL_C_EVENT", "CTRL_BREAK_EVENT"} : NotifyOnce(type)
    \/ \E t \in Threads : HandlerCheck(t)
    \/ \E t \in Threads : HandlerWrite(t)
    \/ \E t \in Threads : HandlerClose(t)
    \/ \E t \in Threads : HandlerClear(t)
    \/ DefaultHandler
    \/ WorkerConnect
    \/ \E c \in ExitCodes : WorkerExit(c)

SpecInterrupt == Init /\ [][NextInterrupt]_vars

TypeOK ==
    /\ g_hCommandPipe \in {"NULL", "INVALID", "HCMD"}
    /\ hInboundPipe \in {"UNSET", "INVALID", "HIN"}
    /\ worker \in {"none", "running", "exited"}
    /\ Len(written) <= MaxWritten

(* ======================= properties ===================================== *)

\* run_script has returned; main is at its test, at getchar or has returned
Returned == pc \in {"returned", "press_key", "done"}

\* the loop was left and run_script went on to collect the exit code
PastLoop == "wait_exit" \in reached

IsPrefix(s, t) == Len(s) <= Len(t) /\ SubSeq(t, 1, Len(s)) = s

\* C1: once run_script got past the run loop, the value it returns, and the
\* value main returns, is the worker's exit code (as the 32-bit exit status; as
\* the same number when the code fits an int), whatever console events and
\* heartbeat failures there were
C1_ExitCodePropagated ==
    /\ (Returned /\ PastLoop) =>
          /\ ExitStatus(result) = workerCode
          /\ (workerCode < DwordMod \div 2 => result = workerCode)
    /\ (pc = "done" /\ PastLoop) => mainRet = result

\* a run with a console event and a failed heartbeat that ends with code 7
C1_Witness ==
    pc = "done" /\ PastLoop /\ mainRet = 7 /\ hbFailed >= 1 /\ notifs >= 1

\* C2: when the supervisor has left the loop after the worker's exit, every
\* byte the worker wrote has been forwarded
C2_AllOutputForwarded == PastLoop => forwarded = written

\* C3: the bytes forwarded are always a prefix of the bytes written
C3_ForwardedIsPrefix == IsPrefix(forwarded, written)

\* C4: at most one shutdown token is ever written to the command pipe
C4_AtMostOneShutdownToken == shutdownWritten <= 1

\* C5: no WriteFile is made with the command pipe handle after it was closed
C5_NoWriteAfterClose == staleWrites = 0

\* C6: the command pipe handle is closed at most once
C6_ClosedAtMostOnce == closes["cmd"] <= 1

\* the creation of the output pipe, of the command pipe, failed
InboundCreateFailed == hInboundPipe = "INVALID"
CommandCreateFailed ==
    "create_cmd" \in reached /\ pc # "create_cmd" /\ hstate["cmd"] = "none"

\* C7: when the creation of either pipe failed, no worker is ever spawned and
\* run_script has returned a nonzero value; when it was the command pipe, the
\* output pipe has been closed (once)
C7_CreationFailureAborts ==
    /\ (InboundCreateFailed \/ CommandCreateFailed) =>
          /\ Returned /\ result # 0
          /\ worker = "none" /\ "spawn" \notin reached
          /\ hstate["proc"] = "none" /\ hstate["stdout"] = "none"
    /\ CommandCreateFailed => hstate["in"] = "closed" /\ closes["in"] = 1
    /\ InboundCreateFailed => hstate["cmd"] = "none" /\ "create_cmd" \notin reached

C7_Witness == CommandCreateFailed /\ pc = "done" /\ mainRet = -1

\* heartbeat tokens sent, whether or not the write succeeded
HeartbeatsSent == hbWritten + hbFailed

\* C8: a loop that ran for D ms has sent floor(D / T) - 1 to floor(D / T) + 1
\* heartbeats
C8_HeartbeatCount ==
    PastLoop =>
       LET n == (now - loopStart) \div heartbeatInterval
       IN  HeartbeatsSent >= n - 1 /\ HeartbeatsSent <= n + 1

\* C9: a failed heartbeat write only records the failure: the loop goes on to
\* its exit check with the result untouched and the time of the attempt
\* recorded, and whenever the interval has elapsed at the heartbeat test the
\* write is attempted, whatever failed before
C9_HeartbeatFailureNonFatal ==
    [][ /\ (pc = "hb_write" /\ hbFailed' = hbFailed + 1) =>
              /\ pc' = "exit_check"
              /\ result' = result /\ fail' = fail
              /\ lastHeartbeatTime' = currentTime
        /\ (pc = "hb_check" /\ pc' # pc) =>
              (pc' = "hb_write" <=>
                  DwordSub(GetTickCount(now), lastHeartbeatTime) >= heartbeatInterval)
        /\ (pc = "exit_check" /\ pc' = "wait_exit") => worker = "exited" ]_vars

\* two heartbeat writes in a row have failed after a console event closed the
\* command pipe, the worker still runs and the loop is back at its relay step
C9_Witness ==
    /\ hbFailed >= 2 /\ hbWritten = 0 /\ pc = "peek" /\ worker = "running"
    /\ g_hCommandPipe = "NULL" /\ hstate["cmd"] = "closed"

\* CreateProcess has failed
SpawnFailed == "spawn" \in reached /\ pc # "spawn" /\ hstate["proc"] = "none"

\* C10: when spawning failed, run_script has returned a nonzero value with both
\* pipes closed, and it never waited for a connection, entered the loop or
\* wrote a heartbeat
C10_SpawnFailureAborts ==
    SpawnFailed =>
       /\ Returned /\ result # 0
       /\ hstate["in"] = "closed" /\ hstate["cmd"] = "closed"
       /\ reached \cap {"close_stdout", "connect_cmd", "connect_out", "loop_init",
                        "peek", "hb_check", "hb_write"} = {}
       /\ HeartbeatsSent = 0
       /\ worker = "none"

C10_Witness == SpawnFailed /\ pc = "press_key" /\ result = -1

\* the worker is connected to the command pipe the variable names
CommandConnected ==
    g_hCommandPipe = "HCMD" /\ hstate["cmd"] = "open" /\ ctlClient = "open"

\* C11: when ConnectNamedPipe fails on the command pipe or on the output pipe,
\* run_script returns a nonzero value without entering the loop or writing a
\* heartbeat, and no step of the supervisor ends the worker or touches its
\* process handle
C11_ConnectFailureAborts ==
    [][ /\ (pc = "connect_cmd" /\ pc' # pc /\ ~CommandConnected) =>
              (pc' = "returned" /\ result' # 0 /\ worker' = worker)
        /\ (pc = "connect_out" /\ pc' # pc /\ ~workerOut) =>
              (pc' = "returned" /\ result' # 0 /\ worker' = worker)
        /\ (fail \in {"connect_cmd", "connect_out"}) =>
              /\ pc' \in {"returned", "press_key", "done"}
              /\ "loop_init" \notin reached'
              /\ HeartbeatsSent' = 0
              /\ hstate'["proc"] = "open"
              /\ (pc' # pc => worker' = worker) ]_vars

\* the connection to the command pipe failed and the worker is left running
C11_Witness == fail = "connect_cmd" /\ worker = "running" /\ pc = "done"

\* C12: once PeekNamedPipe or ReadFile has reported an error on the output pipe
\* the loop does not go on to another iteration
C12_LeavesOnChannelFailure == outFailed => pc \notin {"sleep", "peek"}

\* the four name buffers, empty until createNamedPipe has filled them
PipeNames == <<scriptOutputPipeName, scriptCommandPipeName, peer.out, peer.cmd>>

\* C13: the names generated by two launchers running at the same time, and the
\* two names of one launcher, are pairwise different
C13_NamesDistinct ==
    \A i, j \in 1 .. 4 :
        (i < j /\ PipeNames[i] # <<>> /\ PipeNames[j] # <<>>) => PipeNames[i] # PipeNames[j]

\* all four names exist, for ids and suffixes whose digits run together the same
\* way (1 and 23, 12 and 3)
C13_Witness ==
    /\ \A i \in 1 .. 4 : PipeNames[i] # <<>>
    /\ pid = 1 /\ randomSuffix = 23 /\ peer.pid = 12 /\ peer.randomSuffix = 3

\* C14: once the handlers of the termination events that arrived in the running
\* loop, with the command pipe open, have completed (the loop still running and
\* the worker still there to read), one "shutdown\n" token was written, no write came after the close, the pipe is
\* closed and g_hCommandPipe is NULL
C14_OneTokenThenClosed ==
    (pc \in LoopPcs /\ worker = "running" /\ notifs >= 1 /\ \A t \in Threads : hpc[t] = "idle") =>
        /\ shutdownWritten = 1
        /\ staleWrites = 0
        /\ hstate["cmd"] = "closed"
        /\ g_hCommandPipe = "NULL"

\* the positions of run_script in the order of its lifecycle: channels created,
\* worker spawned, connections awaited, running, draining
Stages == <<"create_out", "create_cmd", "open_stdout", "spawn", "close_stdout",
            "connect_cmd", "connect_out", "loop_init", "peek", "wait_exit", "cleanup">>

\* C15: run_script advances along its stages only; the worker is spawned only
\* after both pipes were created; the loop is entered only from the connection
\* wait, after the worker connected to the command pipe and to the output pipe;
\* after a failure return there is no spawn, no connection wait, no relay and no
\* heartbeat
C15_Lifecycle ==
    [][ /\ \A i \in 2 .. Len(Stages) : Stages[i] \in reached' => Stages[i - 1] \in reached'
        /\ (worker = "none" /\ worker' # "none") =>
               /\ pc = "spawn"
               /\ hstate["in"] # "none" /\ hstate["cmd"] # "none"
        /\ (pc # "loop_init" /\ pc' = "loop_init") =>
               /\ pc = "connect_out"
               /\ workerOut /\ ctlClient # "none"
        /\ fail # "none" =>
               /\ pc' \in {"returned", "press_key", "done"}
               /\ reached' \cap LoopPcs = reached \cap LoopPcs
               /\ (worker = "none" => worker' = "none")
               /\ HeartbeatsSent' = HeartbeatsSent
               /\ forwarded' = forwarded ]_vars

\* a whole run: every stage was passed, a heartbeat was written and main returned
C15_Witness ==
    /\ pc = "done" /\ fail = "none"
    /\ \A i \in 1 .. Len(Stages) : Stages[i] \in reached
    /\ hbWritten >= 1

\* C16: a worker that exits while the supervisor is in the loop is seen by the
\* next exit check the loop makes, and run_script then returns, whatever output
\* is pending, whatever heartbeat writes failed and whatever console events were
\* handled
C16_ReturnsAfterWorkerExit ==
    /\ [][(pc = "exit_check" /\ pc' # pc /\ worker = "exited") => pc' = "wait_exit"]_vars
    /\ (worker = "exited" /\ pc \in LoopPcs) ~> Returned

\* run_script has returned from a loop in which a console event was handled, a
\* heartbeat write failed and the worker had written output
C16_Witness ==
    /\ pc = "returned" /\ PastLoop
    /\ hret = "TRUE" /\ hbFailed >= 1 /\ written # <<>>

\* every console event delivered so far has been handled to the end
HandlerDone == notifs >= 1 /\ \A t \in Threads : hpc[t] = "idle"

\* C17: after the handler has dealt with a termination event it has not
\* reported the event as handled, so the default termination goes ahead and the
\* loop does not go on
C17_DefaultTerminationProceeds == HandlerDone => hret = "FALSE"

\* C17, as the code has it: the handler ends by returning TRUE, so for Ctrl+C
\* the default handler never ends the process, and the loop goes on until the
\* worker has exited
C17_HandledSuppressesDefault ==
    [][ /\ (\E t \in Threads : hpc[t] # "idle" /\ hpc'[t] = "idle") => hret' = "TRUE"
        /\ hret = "TRUE" => pc' # "killed"
        /\ (hret = "TRUE" /\ pc \in LoopPcs /\ pc' \notin LoopPcs) =>
               (worker = "exited" /\ pc' = "wait_exit") ]_vars

\* after Ctrl+C the token was written and the pipe closed, and the loop still
\* runs, its heartbeat writes failing, while the worker runs
C17_Witness ==
    /\ HandlerDone /\ hret = "TRUE"
    /\ shutdownWritten = 1 /\ hstate["cmd"] = "closed"
    /\ pc = "sleep" /\ hbFailed >= 1 /\ worker = "running"

\* C18: the exit code is read while the process handle has not been closed, and
\* when run_script returns after the loop the output pipe, the command pipe and
\* the worker's process and thread handles are closed, each by one CloseHandle,
\* whether or not a console event closed the command pipe before
C18_ReleasedOnceAtReturn ==
    [][ /\ (pc = "wait_exit" /\ pc' = "cleanup") =>
               (hstate["proc"] = "open" /\ closes["proc"] = 0)
        /\ (pc = "cleanup_cmd" /\ pc' = "returned") =>
               \A x \in {"in", "cmd", "proc", "thread"} :
                   hstate'[x] = "closed" /\ closes'[x] = 1 ]_vars

\* C19: while there is no command pipe (it has not been created yet, or its
\* creation failed and g_hCommandPipe holds INVALID_HANDLE_VALUE) no handler
\* thread gets past the test to WriteFile and CloseHandle
C19_NoWriteWithoutChannel ==
    hstate["cmd"] = "none" => \A t \in Threads : hpc[t] \in {"idle", "check"}

\* C20: at every due check lastHeartbeatTime is the tick value of the moment
\* lastBeatAt, and the heartbeat is written exactly when heartbeatInterval ms or
\* more have passed since that moment, also when the tick counter has wrapped
\* in between
C20_DueAcrossWrap ==
    [][ (pc = "hb_check" /\ pc' # pc) =>
            /\ lastHeartbeatTime = GetTickCount(lastBeatAt)
            /\ (pc' = "hb_write") <=> (now - lastBeatAt >= heartbeatInterval)
            /\ (pc' = "exit_check") <=> (now - lastBeatAt < heartbeatInterval) ]_vars

\* a heartbeat is due and the tick counter has wrapped since the last one
C20_Witness == pc = "hb_write" /\ currentTime < lastHeartbeatTime

====
